---- MODULE Spec2Model ----
(***************************************************************************)
(* Quadtree image codec of src/img/main.cpp.                               *)
(*                                                                         *)
(* The model has two parts.  The driver part follows main -> ProcessDir -> *)
(* ProcessImg over a directory listing fixed in the initial state, one     *)
(* action per statement group of ProcessImg.  The call part applies the    *)
(* functions PadToSquare, Image::Resize, Encode and Decode directly to the *)
(* first file's pixel grid, with arguments the driver itself never passes  *)
(* (sub-regions, sizes that are not powers of two, a second round trip).   *)
(*                                                                         *)
(* Coordinates are the source's 0-based (x, y); a grid is a sequence of    *)
(* rows, so pixel (x, y) is data[y + 1][x + 1].                            *)
(***************************************************************************)
EXTENDS Integers, Sequences, FiniteSets, TLC

(* ------------------------------ bounds -------------------------------- *)

\* Largest width and height of a file's pixel grid in a one-file directory.
MaxSide == 5

\* Largest width and height of a grid Encode and Decode are called on directly.
MaxCallSide == 3

\* Largest number of entries of a directory listing with several entries.
MaxFiles == 3

(* ------------------------------ colours ------------------------------- *)

Color(r, g, b) == [r |-> r, g |-> g, b |-> b]

\* A value-initialised Color, the element std::vector<Color>(width) holds.
Black == Color(0, 0, 0)

\* Three colours on a line: Near is exactly at the tolerance from Black and
\* from Far, Far is twice the tolerance from Black.
Near == Color(6, 0, 8)

Far == Color(12, 0, 16)

Palette == {Black, Near, Far}

\* The default of isUniform's tolerance parameter, which Encode never overrides.
DefaultTolerance == 10

distanceSquared(a, c) ==
    LET dr == a.r - c.r
        dg == a.g - c.g
        db == a.b - c.b
    IN  dr * dr + dg * dg + db * db

(* ------------------------------- Image -------------------------------- *)

\* Image(int width, int height): height rows of width value-initialised colours.
Image(width, height) ==
    [data |-> [y \in 1..height |-> [x \in 1..width |-> Black]],
     w_   |-> width,
     h_   |-> height]

\* Image(): the default-constructed image.
EmptyImage == [data |-> << >>, w_ |-> 0, h_ |-> 0]

width(img) == IF img.data = << >> THEN 0 ELSE Len(img.data[1])

height(img) == Len(img.data)

\* Color& at(int x, int y)
at(img, x, y) == img.data[y + 1][x + 1]

\* Resize with the two bounds exchanged: x tested against h_, y against w_.
ResizeBoundsExchanged(img, w, h) ==
    [data |-> [y \in 1..h |-> [x \in 1..w |->
                  IF (x - 1) < img.h_ /\ (y - 1) < img.w_
                  THEN at(img, x - 1, y - 1)
                  ELSE Black]],
     w_   |-> w,
     h_   |-> h]

\* Image::Resize(w, h): the top-left w x h cells, black where (x, y) lies
\* outside the w_ x h_ the image records.
Resize(img, w, h) ==
    [data |-> [y \in 1..h |-> [x \in 1..w |->
                  IF (x - 1) < img.w_ /\ (y - 1) < img.h_
                  THEN at(img, x - 1, y - 1)
                  ELSE Black]],
     w_   |-> w,
     h_   |-> h]

\* x & (x - 1) == 0 for x > 0: x has a single set bit.
RECURSIVE SingleBit(_)
SingleBit(x) ==
    IF x = 1 THEN TRUE
    ELSE IF x % 2 = 1 THEN FALSE
    ELSE SingleBit(x \div 2)

IsPowerOfTwo(x) == x > 0 /\ SingleBit(x)

IsValidImageSize(img) == width(img) = height(img) /\ IsPowerOfTwo(width(img))

Max(a, c) == IF a < c THEN c ELSE a

\* int size = 1; while (size < std::max(w, h)) size *= 2;
RECURSIVE PadLoop(_, _)
PadLoop(size, m) == IF size < m THEN PadLoop(size * 2, m) ELSE size

\* The padding loop with <= for <: a side that is already a power of two doubles.
RECURSIVE PadLoopInclusive(_, _)
PadLoopInclusive(size, m) == IF size <= m THEN PadLoopInclusive(size * 2, m) ELSE size

PadSizeInclusive(w, h) == PadLoopInclusive(1, Max(w, h))

PadSize(w, h) == PadLoop(1, Max(w, h))

PadToSquare(input) ==
    LET h == height(input)
        w == width(input)
        size == PadSize(w, h)
        padded == Image(size, size)
    IN  [data |-> [y \in 1..size |-> [x \in 1..size |->
                      IF (y - 1) < h /\ (x - 1) < w
                      THEN at(input, x - 1, y - 1)
                      ELSE padded.data[y][x]]],
         w_   |-> w,
         h_   |-> h]

(* ------------------------------ QuadTree ------------------------------ *)

\* quadtree.h is not part of the sources: a tree is a leaf holding a value or
\* a node holding four sons, indexed by direction.
NW == 1

NE == 2

SE == 3

SW == 4

QuadLeaf(v) == [leaf |-> TRUE, value |-> v, sons |-> << >>]

QuadNode(nw, ne, se, sw) ==
    [leaf |-> FALSE, value |-> Black, sons |-> <<nw, ne, se, sw>>]

isLeaf(node) == node.leaf

value(node) == node.value

son(node, d) == node.sons[d]

(* --------------------------- Encode / Decode -------------------------- *)

\* The two nested loops of isUniform from the k-th cell of the region on, in
\* row-major order, returning false at the first cell out of tolerance.
RECURSIVE UniformScan(_, _, _, _, _, _)
UniformScan(img, x, y, size, tolerance, k) ==
    IF size <= 0 \/ k >= size * size THEN TRUE
    ELSE LET j == y + (k \div size)
             i == x + (k % size)
             ref == img[y + 1][x + 1]
             c == img[j + 1][i + 1]
         IN  IF distanceSquared(ref, c) > tolerance * tolerance
             THEN FALSE
             ELSE UniformScan(img, x, y, size, tolerance, k + 1)

\* isUniform with >= for >: a pixel exactly at the tolerance breaks uniformity.
isUniformStrict(img, x, y, size, tolerance) ==
    \A j \in y..(y + size - 1), i \in x..(x + size - 1) :
        ~(distanceSquared(img[y + 1][x + 1], img[j + 1][i + 1]) >= tolerance * tolerance)

\* isUniform whose outer loop stops one row early.
isUniformSkipsLastRow(img, x, y, size, tolerance) ==
    \A j \in y..(y + size - 2), i \in x..(x + size - 1) :
        ~(distanceSquared(img[y + 1][x + 1], img[j + 1][i + 1]) > tolerance * tolerance)

isUniform(img, x, y, size, tolerance) == UniformScan(img, x, y, size, tolerance, 0)

\* Encode's recursive calls with the last two arguments exchanged (SW before SE).
EncodeSonsExchanged(x, y, size) ==
    LET half == size \div 2
    IN  << <<x, y, half>>,
           <<x + half, y, half>>,
           <<x, y + half, half>>,
           <<x + half, y + half, half>> >>

\* Encode's second recursive call on x instead of x + half.
EncodeSonsRepeated(x, y, size) ==
    LET half == size \div 2
    IN  << <<x, y, half>>,
           <<x, y, half>>,
           <<x + half, y + half, half>>,
           <<x, y + half, half>> >>

\* The regions of the four recursive calls of Encode, in argument order.
EncodeSons(x, y, size) ==
    LET half == size \div 2
    IN  << <<x, y, half>>,
           <<x + half, y, half>>,
           <<x + half, y + half, half>>,
           <<x, y + half, half>> >>

\* Encode with the record of its calls: tree is the value returned, calls holds
\* one entry per invocation (its region, its depth of recursion, the region of
\* the invocation that made it, << >> for the outermost).
RECURSIVE EncodeRun(_, _, _, _, _, _)
EncodeRun(img, x, y, size, depth, from) ==
    LET this == [x |-> x, y |-> y, size |-> size, depth |-> depth, from |-> from]
    IN  IF isUniform(img, x, y, size, DefaultTolerance)
        THEN [tree |-> QuadLeaf(img[y + 1][x + 1]), calls |-> {this}]
        ELSE LET q == EncodeSons(x, y, size)
                 me == <<x, y, size>>
                 r == [d \in 1..4 |->
                         EncodeRun(img, q[d][1], q[d][2], q[d][3], depth + 1, me)]
             IN  [tree  |-> QuadNode(r[1].tree, r[2].tree, r[3].tree, r[4].tree),
                  calls |-> {this} \cup r[1].calls \cup r[2].calls
                                   \cup r[3].calls \cup r[4].calls]

Encode(img, x, y, size) == EncodeRun(img, x, y, size, 0, << >>).tree

\* The leaf branch of Decode with its inner loop stopping one column early.
FillRegionShort(img, c, x, y, size) ==
    [j \in 1..Len(img) |-> [i \in 1..Len(img[j]) |->
        IF (j - 1) >= y /\ (j - 1) < y + size /\ (i - 1) >= x /\ (i - 1) < x + size - 1
        THEN c
        ELSE img[j][i]]]

\* The leaf branch of Decode: every cell of the region takes the colour c.
FillRegion(img, c, x, y, size) ==
    [j \in 1..Len(img) |-> [i \in 1..Len(img[j]) |->
        IF (j - 1) >= y /\ (j - 1) < y + size /\ (i - 1) >= x /\ (i - 1) < x + size
        THEN c
        ELSE img[j][i]]]

\* Decode's recursive calls with the offsets of SE and SW exchanged.
DecodeSonsExchanged(x, y, size) ==
    LET half == size \div 2
    IN  [d \in {NW, NE, SE, SW} |->
            CASE d = NW -> <<x, y, half>>
              [] d = NE -> <<x + half, y, half>>
              [] d = SE -> <<x, y + half, half>>
              [] d = SW -> <<x + half, y + half, half>>]

\* The regions of the four recursive calls of Decode, by direction of the son.
DecodeSons(x, y, size) ==
    LET half == size \div 2
    IN  [d \in {NW, NE, SE, SW} |->
            CASE d = NW -> <<x, y, half>>
              [] d = NE -> <<x + half, y, half>>
              [] d = SE -> <<x + half, y + half, half>>
              [] d = SW -> <<x, y + half, half>>]

\* Decode writes into img; the value is img after the call.
RECURSIVE Decode(_, _, _, _, _)
Decode(img, node, x, y, size) ==
    IF isLeaf(node)
    THEN FillRegion(img, value(node), x, y, size)
    ELSE LET q == DecodeSons(x, y, size)
             i1 == Decode(img, son(node, NW), q[NW][1], q[NW][2], q[NW][3])
             i2 == Decode(i1, son(node, NE), q[NE][1], q[NE][2], q[NE][3])
             i3 == Decode(i2, son(node, SE), q[SE][1], q[SE][2], q[SE][3])
         IN  Decode(i3, son(node, SW), q[SW][1], q[SW][2], q[SW][3])

(* ------------------------------- inputs ------------------------------- *)

Cells(w, h) == (0..(w - 1)) \X (0..(h - 1))

\* A w x h image of colour bg in which cell p1 holds c1 and cell p2 holds c2
\* (p2 wins where they coincide).
Spotted(w, h, bg, p1, c1, p2, c2) ==
    [data |-> [y \in 1..h |-> [x \in 1..w |->
                  IF <<x - 1, y - 1>> = p2 THEN c2
                  ELSE IF <<x - 1, y - 1>> = p1 THEN c1
                  ELSE bg]],
     w_   |-> w,
     h_   |-> h]

\* A directory entry: is_regular_file(), extension(), whether stbi_load
\* succeeds on it, and the pixels it then yields.
ImageFile(g) == [regular |-> TRUE, ext |-> ".png", loads |-> TRUE, content |-> g]

CorruptFile == [regular |-> TRUE, ext |-> ".jpg", loads |-> FALSE, content |-> EmptyImage]

OtherFile == [regular |-> TRUE, ext |-> ".txt", loads |-> FALSE, content |-> EmptyImage]

SubDir == [regular |-> FALSE, ext |-> "", loads |-> FALSE, content |-> EmptyImage]

\* Listings of up to MaxFiles entries of every kind; their image files hold
\* one pixel.
BatchEntries ==
    {ImageFile(Spotted(1, 1, c, <<0, 0>>, c, <<0, 0>>, c)) : c \in Palette}
        \cup {CorruptFile, OtherFile, SubDir}

BatchDirs == UNION {[1..n -> BatchEntries] : n \in 0..MaxFiles}

(* ------------------------------- state -------------------------------- *)

VARIABLES
    dir,          \* the listing fs::directory_iterator(in) walks
    idx,          \* number of entries ProcessDir has gone past
    batch,        \* "iter", "done", "aborted" by an uncaught exception, or
                  \* "direct": the functions are called directly, main is not run
    out,          \* out[i]: the grid handed to WriteImage for entry i, or NoOutput
    pc,           \* position inside ProcessImg for entry idx + 1
    img,          \* ProcessImg's img
    originalW,
    originalH,
    sizeChanged,
    qt,           \* the tree Encode returned
    calls,        \* the invocations of Encode that built qt
    decoded,      \* ProcessImg's decoded
    call          \* the last direct call of a function, or NoCall

vars == <<dir, idx, batch, out, pc, img, originalW, originalH, sizeChanged,
          qt, calls, decoded, call>>

NoOutput == [data |-> << >>, w_ |-> -1, h_ |-> -1]

NoTree == [leaf |-> TRUE, value |-> Black, sons |-> << >>]

NoCall ==
    [op |-> "none", arg |-> EmptyImage, x |-> 0, y |-> 0, size |-> 0,
     tree |-> NoTree, grid |-> << >>, grid2 |-> << >>,
     err |-> "none"]

locals == <<img, originalW, originalH, sizeChanged, qt, calls, decoded>>

\* The listing holds one image file: a grid of any width and height up to
\* MaxSide, 0 included, of one background colour with at most two cells of
\* another colour.
SingleDir ==
    \E w \in 0..MaxSide, h \in 0..MaxSide :
        IF w = 0 \/ h = 0
        THEN dir = <<ImageFile(Image(w, h))>>
        ELSE \E bg \in Palette, p1 \in Cells(w, h), c1 \in Palette,
                p2 \in Cells(w, h), c2 \in Palette :
                dir = <<ImageFile(Spotted(w, h, bg, p1, c1, p2, c2))>>

Init ==
    /\ SingleDir \/ dir \in BatchDirs
    /\ idx = 0
    /\ batch = "iter"
    /\ out = [i \in 1..Len(dir) |-> NoOutput]
    /\ pc = "idle"
    /\ img = EmptyImage
    /\ originalW = 0
    /\ originalH = 0
    /\ sizeChanged = FALSE
    /\ qt = NoTree
    /\ calls = {}
    /\ decoded = EmptyImage
    /\ call = NoCall

ImageExt == {".png", ".jpg", ".jpeg"}

(* ------------------------------ ProcessDir ---------------------------- *)

entry == dir[idx + 1]

AtLoopHead == batch = "iter" /\ pc = "idle" /\ idx < Len(dir)

\* if (!entry.is_regular_file()) continue;
SkipNotRegular ==
    /\ AtLoopHead
    /\ ~entry.regular
    /\ idx' = idx + 1
    /\ UNCHANGED <<dir, batch, out, pc, locals, call>>

\* ProcessImg on a path whose extension is not .png, .jpg or .jpeg: nothing.
ProcessImgOtherExtension ==
    /\ AtLoopHead
    /\ entry.regular
    /\ entry.ext \notin ImageExt
    /\ idx' = idx + 1
    /\ UNCHANGED <<dir, batch, out, pc, locals, call>>

\* Image img = ReadImage(in); originalW, originalH, sizeChanged = false.
ReadImage ==
    /\ AtLoopHead
    /\ entry.regular
    /\ entry.ext \in ImageExt
    /\ entry.loads
    /\ img' = entry.content
    /\ originalW' = width(entry.content)
    /\ originalH' = height(entry.content)
    /\ sizeChanged' = FALSE
    /\ pc' = "read"
    /\ UNCHANGED <<dir, idx, batch, out, qt, calls, decoded, call>>

\* stbi_load returns null: ReadImage throws std::runtime_error, which neither
\* ProcessImg, ProcessDir nor main catches.
ReadImageThrows ==
    /\ AtLoopHead
    /\ entry.regular
    /\ entry.ext \in ImageExt
    /\ ~entry.loads
    /\ batch' = "aborted"
    /\ UNCHANGED <<dir, idx, out, pc, locals, call>>

\* if (!IsValidImageSize(img)) { img = PadToSquare(img); sizeChanged = true; }
PadIfInvalid ==
    /\ batch = "iter"
    /\ pc = "read"
    /\ IF ~IsValidImageSize(img)
       THEN img' = PadToSquare(img) /\ sizeChanged' = TRUE
       ELSE UNCHANGED <<img, sizeChanged>>
    /\ pc' = "sized"
    /\ UNCHANGED <<dir, idx, batch, out, originalW, originalH, qt, calls, decoded, call>>

\* QuadTree<Color>* qt = Encode(img.data, 0, 0, img.height());
EncodeImg ==
    /\ batch = "iter"
    /\ pc = "sized"
    /\ \E run \in {EncodeRun(img.data, 0, 0, height(img), 0, << >>)} :
          qt' = run.tree /\ calls' = run.calls
    /\ pc' = "encoded"
    /\ UNCHANGED <<dir, idx, batch, out, img, originalW, originalH, sizeChanged,
                   decoded, call>>

\* Image decoded(img.height(), img.height()); Decode(decoded.data, qt, 0, 0, decoded.height());
DecodeImg ==
    /\ batch = "iter"
    /\ pc = "encoded"
    /\ LET fresh == Image(height(img), height(img))
       IN  decoded' = [fresh EXCEPT !.data = Decode(fresh.data, qt, 0, 0, height(fresh))]
    /\ pc' = "decoded"
    /\ UNCHANGED <<dir, idx, batch, out, img, originalW, originalH, sizeChanged,
                   qt, calls, call>>

\* if (sizeChanged) decoded = decoded.Resize(originalW, originalH);
ResizeIfChanged ==
    /\ batch = "iter"
    /\ pc = "decoded"
    /\ decoded' = IF sizeChanged THEN Resize(decoded, originalW, originalH) ELSE decoded
    /\ pc' = "resized"
    /\ UNCHANGED <<dir, idx, batch, out, img, originalW, originalH, sizeChanged,
                   qt, calls, call>>

\* WriteImage(out, decoded); delete qt; ProcessImg returns and the loop moves on.
WriteImage ==
    /\ batch = "iter"
    /\ pc = "resized"
    /\ out' = [out EXCEPT ![idx + 1] = decoded]
    /\ idx' = idx + 1
    /\ pc' = "idle"
    /\ img' = EmptyImage
    /\ originalW' = 0
    /\ originalH' = 0
    /\ sizeChanged' = FALSE
    /\ qt' = NoTree
    /\ calls' = {}
    /\ decoded' = EmptyImage
    /\ UNCHANGED <<dir, batch, call>>

\* The directory_iterator reaches its end: ProcessDir and main return.
EndOfDir ==
    /\ batch = "iter"
    /\ pc = "idle"
    /\ idx = Len(dir)
    /\ batch' = "done"
    /\ UNCHANGED <<dir, idx, out, pc, locals, call>>

(* ----------------------------- direct calls --------------------------- *)

\* The grid the functions are applied to: the pixels of the only file.
G == dir[1].content

CanCall ==
    /\ batch = "iter"
    /\ pc = "idle"
    /\ idx = 0
    /\ Len(dir) = 1
    /\ dir[1].loads

\* Decode of Encode of a square grid of side s, into a fresh s x s grid.
RoundTrip(data, s) == Decode(Image(s, s).data, Encode(data, 0, 0, s), 0, 0, s)

\* PadToSquare(G)
CallPadToSquare ==
    /\ CanCall
    /\ call' = [NoCall EXCEPT !.op = "PadToSquare", !.arg = G,
                              !.grid = PadToSquare(G).data]
    /\ batch' = "direct"
    /\ UNCHANGED <<dir, idx, out, pc, locals>>

\* PadToSquare(G).Resize(G.width(), G.height())
CallPadResize ==
    /\ CanCall
    /\ call' = [NoCall EXCEPT !.op = "PadResize", !.arg = G,
                              !.grid = Resize(PadToSquare(G), width(G), height(G)).data]
    /\ batch' = "direct"
    /\ UNCHANGED <<dir, idx, out, pc, locals>>

\* Encode(G.data, x, y, size) on any region that lies inside G.
CallEncode ==
    /\ CanCall
    /\ width(G) <= MaxCallSide
    /\ height(G) <= MaxCallSide
    /\ \E size \in 1..MaxCallSide, x \in 0..(MaxCallSide - 1), y \in 0..(MaxCallSide - 1) :
          /\ x + size <= width(G)
          /\ y + size <= height(G)
          /\ \E run \in {EncodeRun(G.data, x, y, size, 0, << >>)} :
                call' = [NoCall EXCEPT !.op = "Encode", !.arg = G, !.x = x, !.y = y,
                                      !.size = size, !.tree = run.tree]
    /\ batch' = "direct"
    /\ UNCHANGED <<dir, idx, out, pc, locals>>

\* Decode(target.data, Encode(G.data, 0, 0, size), 0, 0, size) into a fresh
\* target of G's dimensions, for any size that fits in G.
CallDecode ==
    /\ CanCall
    /\ width(G) <= MaxCallSide
    /\ height(G) <= MaxCallSide
    /\ \E size \in 1..MaxCallSide :
          /\ size <= width(G)
          /\ size <= height(G)
          /\ \E tree \in {Encode(G.data, 0, 0, size)} :
                call' = [NoCall EXCEPT !.op = "Decode", !.arg = G, !.size = size,
                                      !.tree = tree,
                                      !.grid = Decode(Image(width(G), height(G)).data,
                                                      tree, 0, 0, size)]
    /\ batch' = "direct"
    /\ UNCHANGED <<dir, idx, out, pc, locals>>

\* Two round trips in a row on a power-of-two square grid: grid is the first
\* decoded grid, grid2 is the round trip of grid.
CallRoundTripTwice ==
    /\ CanCall
    /\ IsValidImageSize(G)
    /\ \E d \in {RoundTrip(G.data, height(G))} :
          call' = [NoCall EXCEPT !.op = "RoundTripTwice", !.arg = G,
                                !.size = height(G),
                                !.grid = d, !.grid2 = RoundTrip(d, height(G))]
    /\ batch' = "direct"
    /\ UNCHANGED <<dir, idx, out, pc, locals>>

(* ---------------------------- specification --------------------------- *)

Next ==
    \/ SkipNotRegular
    \/ ProcessImgOtherExtension
    \/ ReadImage
    \/ ReadImageThrows
    \/ PadIfInvalid
    \/ EncodeImg
    \/ DecodeImg
    \/ ResizeIfChanged
    \/ WriteImage
    \/ EndOfDir
    \/ CallPadToSquare
    \/ CallPadResize
    \/ CallEncode
    \/ CallDecode
    \/ CallRoundTripTwice

Spec == Init /\ [][Next]_vars

(* ------------------------- vocabulary of the claims ------------------- *)

\* The cells of the square region of side size whose top-left corner is (x, y).
RegionCells(x, y, size) == (x..(x + size - 1)) \X (y..(y + size - 1))

\* Pixel p = <<x, y>> of a grid given as a sequence of rows.
Pixel(data, p) == data[p[2] + 1][p[1] + 1]

WithinTolerance(a, c, t) == distanceSquared(a, c) <= t * t

\* The grid is h rows of w colours.
HasShape(data, w, h) ==
    /\ Len(data) = h
    /\ \A j \in 1..h : Len(data[j]) = w

\* Two grids of the same w x h shape agree within tolerance t at every pixel.
GridsWithin(d1, d2, w, h, t) ==
    /\ HasShape(d1, w, h)
    /\ HasShape(d2, w, h)
    /\ \A p \in Cells(w, h) : WithinTolerance(Pixel(d1, p), Pixel(d2, p), t)

PowersOfTwo == {1, 2, 4, 8, 16, 32}

Log2(n) == CHOOSE k \in 0..5 : 2^k = n

RECURSIVE TreeDepth(_)
TreeDepth(t) ==
    IF t.leaf THEN 0
    ELSE 1 + Max(Max(TreeDepth(t.sons[1]), TreeDepth(t.sons[2])),
                 Max(TreeDepth(t.sons[3]), TreeDepth(t.sons[4])))

RECURSIVE LeafCount(_)
LeafCount(t) ==
    IF t.leaf THEN 1
    ELSE LeafCount(t.sons[1]) + LeafCount(t.sons[2])
            + LeafCount(t.sons[3]) + LeafCount(t.sons[4])

\* Top-left corners of the quadrants of the region at (x, y), half = size / 2:
\* sons 1..4 are NW, NE, SE, SW.
QuadrantCorner(x, y, half, d) ==
    <<IF d \in {2, 3} THEN x + half ELSE x, IF d \in {3, 4} THEN y + half ELSE y>>

QuadrantOf(x, y, half, p) ==
    IF p[2] < y + half
    THEN (IF p[1] < x + half THEN 1 ELSE 2)
    ELSE (IF p[1] < x + half THEN 4 ELSE 3)

\* t, the tree of the region at (x, y), isolates pixel p: down to the 1 x 1
\* leaf of p every node is internal and its three other sons are leaves.
RECURSIVE IsolatesPixel(_, _, _, _, _)
IsolatesPixel(t, x, y, size, p) ==
    IF size = 1 THEN t.leaf
    ELSE /\ ~t.leaf
         /\ LET half == size \div 2
                d == QuadrantOf(x, y, half, p)
                c == QuadrantCorner(x, y, half, d)
            IN  /\ \A k \in (1..4) \ {d} : t.sons[k].leaf
                /\ IsolatesPixel(t.sons[d], c[1], c[2], half, p)

\* Pixel p alone differs, by more than the tolerance, from the other pixels of
\* the s x s grid, which are all the same colour.
SingleDiffering(data, s, p) ==
    /\ \A q1, q2 \in Cells(s, s) \ {p} : Pixel(data, q1) = Pixel(data, q2)
    /\ \A q \in Cells(s, s) \ {p} :
          ~WithinTolerance(Pixel(data, p), Pixel(data, q), DefaultTolerance)

\* No two different colours of the grid are within the tolerance of each other.
ColoursFarApart(data, w, h) ==
    \A p, q \in Cells(w, h) :
        \/ Pixel(data, p) = Pixel(data, q)
        \/ ~WithinTolerance(Pixel(data, p), Pixel(data, q), DefaultTolerance)

(* -------------------------------- claims ----------------------------- *)

\* The side of the square grid ProcessImg encodes and decodes.
Side == height(img)

\* C1, as amended: Encode has no tolerance argument, its tolerance is the
\* fixed default 10 of isUniform.  Decoding the tree of a power-of-two square
\* grid into a fresh grid of the same side gives a grid of that side in which
\* every pixel is within distance-squared 10 * 10 of the original pixel.
RoundTripWithinDefaultTolerance ==
    pc = "decoded" =>
        /\ IsValidImageSize(img)
        /\ GridsWithin(decoded.data, img.data, Side, Side, DefaultTolerance)

\* C1 witness: a round trip that changed a pixel.
RoundTripLossy ==
    /\ pc = "decoded"
    /\ Side >= 2
    /\ \E p \in Cells(Side, Side) : Pixel(decoded.data, p) # Pixel(img.data, p)

\* C1 as stated: the bound holds for every tolerance t >= 0, so that with
\* t = 0 the decoded grid equals the original.
RoundTripWithinEveryTolerance ==
    pc = "decoded" =>
        \A t \in 0..DefaultTolerance :
            GridsWithin(decoded.data, img.data, Side, Side, t)

\* C2: PadToSquare of a W x H grid is an S x S grid, S the smallest power of
\* two with S >= max(W, H) and S >= 1, equal to the source on the cells with
\* x < W and y < H and (0,0,0) on all the others.
PadToSquareContract ==
    call.op = "PadToSquare" =>
        LET W == width(call.arg)
            H == height(call.arg)
            S == Len(call.grid)
        IN  /\ S \in PowersOfTwo
            /\ S >= W /\ S >= H /\ S >= 1
            /\ \A s2 \in PowersOfTwo : (s2 >= W /\ s2 >= H) => S <= s2
            /\ HasShape(call.grid, S, S)
            /\ \A p \in Cells(S, S) :
                  Pixel(call.grid, p) =
                     IF p[1] < W /\ p[2] < H THEN Pixel(call.arg.data, p)
                     ELSE Color(0, 0, 0)

\* C2 witness: a 3 x 5 grid with a coloured pixel in its last column and
\* last row, padded to 8 x 8.
PadToSquareGrows ==
    /\ call.op = "PadToSquare"
    /\ width(call.arg) = 3
    /\ height(call.arg) = 5
    /\ Len(call.grid) = 8
    /\ Pixel(call.arg.data, <<2, 4>>) # Black

\* C3: PadToSquare(G).Resize(width(G), height(G)) has exactly G's width and
\* height and equals G cell by cell, for every G, empty and non-square ones
\* included.
PadThenResizeIsIdentity ==
    call.op = "PadResize" =>
        /\ HasShape(call.grid, width(call.arg), height(call.arg))
        /\ call.grid = call.arg.data

\* C3 witness: the round trip of a non-square grid that is not all black.
PadThenResizeNonSquare ==
    /\ call.op = "PadResize"
    /\ width(call.arg) >= 1
    /\ height(call.arg) > width(call.arg)
    /\ \E p \in Cells(width(call.arg), height(call.arg)) :
          Pixel(call.arg.data, p) # Black

\* An image file of the listing that stbi_load can read.
Loadable(i) == dir[i].regular /\ dir[i].ext \in ImageExt /\ dir[i].loads

\* C4: what ProcessImg hands to WriteImage has exactly the width and height
\* of the file's image, and each of its pixels is within the encode tolerance
\* of the file's pixel at the same position.
PipelineOutputWithinTolerance ==
    \A i \in 1..Len(dir) :
        out[i] # NoOutput =>
            /\ Loadable(i)
            /\ GridsWithin(out[i].data, dir[i].content.data,
                           width(dir[i].content), height(dir[i].content),
                           DefaultTolerance)

\* C4 witness: a written image that was padded on the way, and lost a colour.
PipelineWrotePaddedImage ==
    /\ Len(dir) = 1
    /\ out[1] # NoOutput
    /\ width(dir[1].content) >= 2
    /\ height(dir[1].content) > width(dir[1].content)
    /\ ~IsPowerOfTwo(height(dir[1].content))
    /\ out[1].data # dir[1].content.data

\* A direct call of Encode or Decode whose size is no power of two or whose
\* grid is not square.
InvalidCall ==
    /\ call.op \in {"Encode", "Decode"}
    /\ \/ ~(call.size \in PowersOfTwo)
       \/ width(call.arg) # height(call.arg)

\* C5: Encode or Decode called with a size that is not a power of two, or on
\* a root grid that is not square, signals an invalid-argument error.
InvalidSizeIsSignalled == InvalidCall => call.err = "invalid_argument"

\* C6: when ProcessDir ends, by returning or by an exception, every loadable
\* image file of the directory has had its output written, whatever happened
\* to the other files.
BatchFailureIsolation ==
    batch \in {"done", "aborted"} =>
        \A i \in 1..Len(dir) : Loadable(i) => out[i] # NoOutput

\* C7, as amended: the round trip of an already decoded grid D stays within
\* the tolerance of D at every pixel, and equals D exactly whenever no two
\* different colours of D are within the tolerance of each other.
SecondRoundTripBound ==
    call.op = "RoundTripTwice" =>
        /\ GridsWithin(call.grid2, call.grid, call.size, call.size, DefaultTolerance)
        /\ ColoursFarApart(call.grid, call.size, call.size) => call.grid2 = call.grid

\* C7 witness: a first round trip that lost a colour and left two colours far
\* apart, and a second one applied to its result.
SecondRoundTripOfLossyGrid ==
    /\ call.op = "RoundTripTwice"
    /\ call.size >= 2
    /\ call.grid # call.arg.data
    /\ ColoursFarApart(call.grid, call.size, call.size)
    /\ \E p, q \in Cells(call.size, call.size) : Pixel(call.grid, p) # Pixel(call.grid, q)

\* C7 as stated: the round trip of an already decoded grid changes no pixel.
RoundTripIdempotent ==
    call.op = "RoundTripTwice" => call.grid2 = call.grid

\* Every pixel of the region is within the default tolerance of the region's
\* top-left pixel.
RegionUniform(data, x, y, size) ==
    \A p \in RegionCells(x, y, size) :
        WithinTolerance(Pixel(data, <<x, y>>), Pixel(data, p), DefaultTolerance)

\* What C8 says of the tree t that Encode returned for a region of data.
LeafIffUniform(t, data, x, y, size) ==
    /\ t.leaf <=> RegionUniform(data, x, y, size)
    /\ t.leaf => t.value = Pixel(data, <<x, y>>)
    /\ size = 1 => t.leaf
    /\ (\A p, q \in RegionCells(x, y, size) : Pixel(data, p) = Pixel(data, q)) => t.leaf

\* C8: Encode(img, x, y, size) returns a Leaf exactly when every pixel of the
\* region is within the tolerance of its top-left pixel img[y][x], and the
\* Leaf holds that pixel's colour; so a region of one colour, and a region of
\* size 1, encode to a single Leaf.
EncodeLeafIffUniform ==
    /\ call.op = "Encode" =>
          LeafIffUniform(call.tree, call.arg.data, call.x, call.y, call.size)
    /\ pc = "encoded" => LeafIffUniform(qt, img.data, 0, 0, Side)

\* C8 witness: a region of two colours, away from the corner of the grid,
\* that Encode turned into one Leaf.
EncodeMergedRegion ==
    /\ call.op = "Encode"
    /\ call.x > 0
    /\ call.size >= 2
    /\ call.tree.leaf
    /\ \E p \in RegionCells(call.x, call.y, call.size) :
          Pixel(call.arg.data, p) # call.tree.value

\* C9: in the tree of an N x N grid, N >= 2, whose pixels are all the same
\* but one that is out of tolerance of them, that pixel has a 1 x 1 Leaf of
\* its own at depth log2(N), every node above it is internal, the three other
\* sons of each of these are Leaves, and there are 3 * log2(N) + 1 leaves.
SingleDifferingPixelIsolated ==
    (pc = "encoded" /\ Side >= 2) =>
        \A p \in Cells(Side, Side) :
            SingleDiffering(img.data, Side, p) =>
                /\ IsolatesPixel(qt, 0, 0, Side, p)
                /\ TreeDepth(qt) = Log2(Side)
                /\ LeafCount(qt) = 3 * Log2(Side) + 1

\* C9 witness: the differing pixel is the top-left corner of a grid of side
\* at least 4.
SingleDifferingCorner ==
    /\ pc = "encoded"
    /\ Side >= 4
    /\ SingleDiffering(img.data, Side, <<0, 0>>)

\* The invocations of Encode made by the invocation on region r.
CallsFrom(r) == {c \in calls : c.from = r}

\* C10: Encode(grid, 0, 0, size) on a power-of-two square grid returns; each
\* recursive call has exactly half its caller's size, at least 1, on a region
\* inside the caller's; the four regions a call recurses on are disjoint and
\* cover its region; the tree is at most log2(size) deep.
EncodeCallsWellFormed ==
    pc = "encoded" =>
        /\ \E c \in calls : c.from = << >> /\ c.x = 0 /\ c.y = 0 /\ c.size = Side
        /\ \A c \in calls :
              /\ c.size >= 1
              /\ c.depth <= Log2(Side)
              /\ c.from # << >> =>
                    /\ 2 * c.size = c.from[3]
                    /\ RegionCells(c.x, c.y, c.size)
                          \subseteq RegionCells(c.from[1], c.from[2], c.from[3])
                    /\ \E m \in calls :
                          <<m.x, m.y, m.size>> = c.from /\ m.depth + 1 = c.depth
              /\ LET made == CallsFrom(<<c.x, c.y, c.size>>)
                 IN  made # {} =>
                        /\ Cardinality(made) = 4
                        /\ \A c1, c2 \in made :
                              c1 # c2 => RegionCells(c1.x, c1.y, c1.size)
                                            \cap RegionCells(c2.x, c2.y, c2.size) = {}
                        /\ UNION {RegionCells(k.x, k.y, k.size) : k \in made}
                              = RegionCells(c.x, c.y, c.size)
        /\ TreeDepth(qt) <= Log2(Side)

\* C10 witness: an encoding that recursed down to single pixels of a grid of
\* side at least 4.
EncodeRecursedToPixels ==
    /\ pc = "encoded"
    /\ Side >= 4
    /\ TreeDepth(qt) = Log2(Side)
    /\ \E c \in calls : c.size = 1 /\ c.x > 0 /\ c.y > 0

====
